---- MODULE Spec2Model ----
(***************************************************************************)
(* Model of src/src/app.py: the startup script (load, numeric coercion,    *)
(* grouped aggregation, column flattening, layout, callback registration)  *)
(* and the two Dash callbacks update_graphs and download_csv.              *)
(*                                                                         *)
(* Text is a sequence of one-character strings, so that join, strip and    *)
(* replace are computed character by character.  A table is a record       *)
(* [columns, rows]: the column labels in order and one function            *)
(* label -> cell per row.                                                  *)
(***************************************************************************)
EXTENDS Integers, Sequences, FiniteSets, TLC

VARIABLES
    file,          \* the data file on disk, as pd.read_csv reads it; None: no file
    pc,            \* position of the startup script
    df_top,        \* module global df_top
    grouped,       \* module global grouped
    layout,        \* app.layout
    callbacks,     \* the callbacks registered with @app.callback
    page_open,     \* a browser has loaded the served page
    selection,     \* 'variable-dropdown'.value in the browser
    n_clicks,      \* 'download-button'.n_clicks in the browser
    figures,       \* what the last update_graphs invocation received and returned
    download,      \* what the last download_csv invocation returned
    probe          \* history: one earlier update_graphs invocation, kept for comparison

vars == <<file, pc, df_top, grouped, layout, callbacks, page_open,
          selection, n_clicks, figures, download, probe>>

----------------------------------------------------------------------------
(* Bounds of the model *)

\* most rows a data file holds
MaxRows == 2
\* most clicks on the download button per page load
MaxClicks == 1
\* how many of the dropdown's options (the first ones) the user picks among
MaxPicked == 2

----------------------------------------------------------------------------
(* Values *)

\* Python's None
None == [kind |-> "none"]
\* the missing-value marker (float NaN)
NaN == [kind |-> "nan"]
\* a number held in a cell
Num(n) == [kind |-> "num", num |-> n]
\* a text held in a cell
Str(s) == [kind |-> "str", text |-> s]
\* a dropdown value that is not None: the string naming a column
Name(s) == [kind |-> "name", name |-> s]
\* the float p/q (q > 0), in lowest terms
RECURSIVE Gcd(_, _)
Gcd(a, b) == IF b = 0 THEN a ELSE Gcd(b, a % b)
Frac(p, q) ==
    LET g == Gcd(IF p < 0 THEN -p ELSE p, q)
    IN  IF g = 0 THEN [kind |-> "frac", p |-> 0, q |-> 1]
        ELSE [kind |-> "frac", p |-> p \div g, q |-> q \div g]
\* the float sqrt(p/q)
Sqrt(p, q) == [kind |-> "sqrt", of |-> Frac(p, q)]

\* the characters of the field names and of the statistic names
Chars(s) ==
  CASE s = "First Financing Size" ->
       <<"F","i","r","s","t"," ","F","i","n","a","n","c","i","n","g"," ","S","i","z","e">>
  [] s = "First Financing Valuation" ->
       <<"F","i","r","s","t"," ","F","i","n","a","n","c","i","n","g"," ","V","a","l","u","a","t","i","o","n">>
  [] s = "Revenue" ->
       <<"R","e","v","e","n","u","e">>
  [] s = "Revenue Growth %" ->
       <<"R","e","v","e","n","u","e"," ","G","r","o","w","t","h"," ","%">>
  [] s = "Net Income" ->
       <<"N","e","t"," ","I","n","c","o","m","e">>
  [] s = "Net Debt" ->
       <<"N","e","t"," ","D","e","b","t">>
  [] s = "Market Cap" ->
       <<"M","a","r","k","e","t"," ","C","a","p">>
  [] s = "Gross Profit" ->
       <<"G","r","o","s","s"," ","P","r","o","f","i","t">>
  [] s = "Enterprise Value" ->
       <<"E","n","t","e","r","p","r","i","s","e"," ","V","a","l","u","e">>
  [] s = "EBITDA" ->
       <<"E","B","I","T","D","A">>
  [] s = "EBIT" ->
       <<"E","B","I","T">>
  [] s = "Total Patent Document" ->
       <<"T","o","t","a","l"," ","P","a","t","e","n","t"," ","D","o","c","u","m","e","n","t">>
  [] s = "Total Clinical Trials" ->
       <<"T","o","t","a","l"," ","C","l","i","n","i","c","a","l"," ","T","r","i","a","l","s">>
  [] s = "#Active Investors" ->
       <<"#","A","c","t","i","v","e"," ","I","n","v","e","s","t","o","r","s">>
  [] s = "mean" ->
       <<"m","e","a","n">>
  [] s = "median" ->
       <<"m","e","d","i","a","n">>
  [] s = "std" ->
       <<"s","t","d">>
  [] s = "count" ->
       <<"c","o","u","n","t">>

\* the string of a sequence of characters
RECURSIVE TextFrom(_, _)
TextFrom(chars, i) == IF i > Len(chars) THEN "" ELSE chars[i] \o TextFrom(chars, i + 1)
Text(chars) == TextFrom(chars, 1)

\* the elements of a sequence
Range(s) == {s[i] : i \in DOMAIN s}

\* the grouping column
GroupColumn == "Primary Industry Group"

\* columns_to_convert, the target fields in the order of the list
columns_to_convert ==
    <<"First Financing Size", "First Financing Valuation",
      "Revenue", "Revenue Growth %", "Net Income", "Net Debt", "Market Cap",
      "Gross Profit", "Enterprise Value", "EBITDA", "EBIT",
      "Total Patent Document", "Total Clinical Trials", "#Active Investors">>

\* the statistics handed to agg, in the order of the list
Statistics == <<"mean", "median", "std", "count">>

----------------------------------------------------------------------------
(* The data files of the model *)

\* the cells a target field holds after read_csv: a numeric text, a text that
\* is no number, an empty cell (read as NaN), and a number
CellValues == <<Str(<<"1", "0">>), Str(<<"b", "a", "d">>), NaN, Num(20)>>

\* the cells the grouping column holds: two keys and an empty cell
GroupValues == {Str(<<"B">>), Str(<<"A">>), NaN}

\* a full header: the grouping column, a passthrough column, the target fields
AllColumns == <<GroupColumn, "Company">> \o columns_to_convert

\* the position of a label in a sequence of distinct labels
IndexOf(seq, x) == CHOOSE i \in DOMAIN seq : seq[i] = x

\* the shifts of the rows: with two of them, the two cells a column holds in
\* two rows are of one kind or of two kinds next to each other in CellValues
\* (taken cyclically)
Shifts == {0, 1}

\* a row of a data file: the target field at position i of the list holds
\* CellValues[((shift + i - 1) % 4) + 1], so that every row holds every kind
\* of cell
DataRow(g, shift) ==
    [c \in Range(AllColumns) |->
        IF c = GroupColumn THEN g
        ELSE IF c = "Company" THEN Str(<<"c", "o">>)
        ELSE CellValues[((shift + IndexOf(columns_to_convert, c) - 1) % Len(CellValues)) + 1]]

\* the rows of the data files: every sequence of at most MaxRows rows
DataRows ==
    UNION {[1..n -> {DataRow(g, k) : g \in GroupValues, k \in Shifts}] : n \in 0..MaxRows}

\* the sequence without its elements equal to x
Without(seq, x) == SelectSeq(seq, LAMBDA c : c # x)

\* the headers of the data files: full, one target field absent (the first or
\* the last of the list), the grouping column absent
Headers ==
    {AllColumns,
     Without(AllColumns, columns_to_convert[1]),
     Without(AllColumns, columns_to_convert[Len(columns_to_convert)]),
     Without(AllColumns, GroupColumn)}

\* a table restricted to a header
Table(header, rows) ==
    [columns |-> header,
     rows    |-> [i \in DOMAIN rows |-> [c \in Range(header) |-> rows[i][c]]]]

----------------------------------------------------------------------------
(* Startup: load *)

\* os.path.exists(data_path), line 44
file_exists == file # None

Init ==
    /\ file \in {None} \cup {Table(h, r) : h \in Headers, r \in DataRows}
    /\ pc = "load"
    /\ df_top = None
    /\ grouped = None
    /\ layout = None
    /\ callbacks = {}
    /\ page_open = FALSE
    /\ selection = None
    /\ n_clicks = 0
    /\ figures = None
    /\ download = None
    /\ probe = None

\* a later statement of the script never runs: the exception was re-raised at
\* line 53 or reached the outer handler, which re-raises it at line 284
Abort == pc' = "aborted"

\* a faulty load: an absent file is taken for an empty table
LoadSwallow ==
    /\ pc = "load"
    /\ df_top' = IF file_exists THEN file ELSE Table(AllColumns, <<>>)
    /\ pc' = "coerce"
    /\ UNCHANGED <<file, grouped, layout, callbacks, page_open,
                   selection, n_clicks, figures, download, probe>>

\* lines 30-53: read the data file, or raise FileNotFoundError (the logger
\* calls change no state)
Load ==
    /\ pc = "load"
    /\ IF file_exists
       THEN df_top' = file /\ pc' = "coerce"
       ELSE df_top' = df_top /\ Abort
    /\ UNCHANGED <<file, grouped, layout, callbacks, page_open,
                   selection, n_clicks, figures, download, probe>>

----------------------------------------------------------------------------
(* Startup: numeric coercion *)

Digits == <<"0", "1", "2", "3", "4", "5", "6", "7", "8", "9">>

\* the number a text of decimal digits writes
RECURSIVE DecimalValue(_)
DecimalValue(text) ==
    IF text = <<>> THEN 0
    ELSE 10 * DecimalValue(SubSeq(text, 1, Len(text) - 1))
         + (IndexOf(Digits, text[Len(text)]) - 1)

\* a faulty coercion: a text that writes no number becomes 0
to_numeric_zero(cell) ==
    CASE cell.kind = "num" -> cell
      [] cell.kind = "str" ->
            IF cell.text # <<>> /\ \A i \in DOMAIN cell.text : cell.text[i] \in Range(Digits)
            THEN Num(DecimalValue(cell.text))
            ELSE Num(0)
      [] OTHER -> NaN

\* pd.to_numeric(..., errors='coerce') on one cell: a number stays, a text
\* that writes a number becomes that number, anything else becomes NaN.
\* (The texts of the model's files are digit texts and letter texts.)
to_numeric(cell) ==
    CASE cell.kind = "num" -> cell
      [] cell.kind = "str" ->
            IF cell.text # <<>> /\ \A i \in DOMAIN cell.text : cell.text[i] \in Range(Digits)
            THEN Num(DecimalValue(cell.text))
            ELSE NaN
      [] OTHER -> NaN

\* df[col] = pd.to_numeric(df[col], errors='coerce'), col a column of df
SetNumeric(df, col) ==
    [df EXCEPT !.rows = [i \in DOMAIN df.rows |-> [df.rows[i] EXCEPT ![col] = to_numeric(@)]]]

\* the loop of lines 63-64 from position i of the list on: df_top[col] raises
\* KeyError at the first col the table lacks, with the earlier ones coerced
RECURSIVE CoerceFrom(_, _)
CoerceFrom(df, i) ==
    IF i > Len(columns_to_convert) THEN [df |-> df, raised |-> FALSE]
    ELSE IF columns_to_convert[i] \notin Range(df.columns) THEN [df |-> df, raised |-> TRUE]
    ELSE CoerceFrom(SetNumeric(df, columns_to_convert[i]), i + 1)

\* lines 63-64
Coerce ==
    /\ pc = "coerce"
    /\ LET r == CoerceFrom(df_top, 1)
       IN  /\ df_top' = r.df
           /\ IF r.raised THEN Abort ELSE pc' = "aggregate"
    /\ UNCHANGED <<file, grouped, layout, callbacks, page_open,
                   selection, n_clicks, figures, download, probe>>

----------------------------------------------------------------------------
(* Startup: grouped aggregation *)

\* the code points of the characters of the model's group keys
CodePoint(c) == CASE c = "A" -> 65 [] c = "B" -> 66

\* Python's a < b on two texts
RECURSIVE TextLess(_, _)
TextLess(a, b) ==
    IF b = <<>> THEN FALSE
    ELSE IF a = <<>> THEN TRUE
    ELSE IF a[1] # b[1] THEN CodePoint(a[1]) < CodePoint(b[1])
    ELSE TextLess(Tail(a), Tail(b))

\* the keys of a set in ascending order
RECURSIVE Ascending(_)
Ascending(keys) ==
    IF keys = {} THEN <<>>
    ELSE LET least == CHOOSE k \in keys : \A o \in keys \ {k} : TextLess(k.text, o.text)
         IN  <<least>> \o Ascending(keys \ {least})

\* a column of the table, row by row
Column(df, col) == [i \in DOMAIN df.rows |-> df.rows[i][col]]

\* the values of the first i cells in the order of their first appearance, NaN
\* left out
RECURSIVE AppearanceUpTo(_, _)
AppearanceUpTo(cells, i) ==
    IF i = 0 THEN <<>>
    ELSE LET before == AppearanceUpTo(cells, i - 1)
         IN  IF cells[i] = NaN \/ cells[i] \in Range(before) THEN before
             ELSE Append(before, cells[i])

Appearance(cells) == AppearanceUpTo(cells, Len(cells))

\* faulty group keys: as of groupby(sort=False)
GroupKeysUnsorted(df) == Appearance(Column(df, GroupColumn))

\* the group keys of df.groupby('Primary Industry Group'): sort=True orders
\* them ascending, dropna=True leaves the rows with a NaN key out
GroupKeys(df) == Ascending({df.rows[i][GroupColumn] : i \in DOMAIN df.rows} \ {NaN})

\* the rows of the partition of key k, in table order
Partition(df, k) == SelectSeq(df.rows, LAMBDA row : row[GroupColumn] = k)

\* faulty values: a missing value is taken for 0
ValuesSized(part, col) ==
    [i \in DOMAIN part |-> IF part[i][col] = NaN THEN 0 ELSE part[i][col].num]

\* the numbers a column holds in the rows of a partition, NaN skipped
Values(part, col) ==
    LET kept == SelectSeq(part, LAMBDA row : row[col] # NaN)
    IN  [i \in DOMAIN kept |-> kept[i][col].num]

RECURSIVE Sum(_)
Sum(xs) == IF xs = <<>> THEN 0 ELSE xs[1] + Sum(Tail(xs))

\* the numbers in ascending order
RECURSIVE Sorted(_)
Sorted(xs) ==
    IF xs = <<>> THEN <<>>
    ELSE LET i == CHOOSE j \in DOMAIN xs : \A k \in DOMAIN xs : xs[j] <= xs[k]
         IN  <<xs[i]>> \o Sorted(SubSeq(xs, 1, i - 1) \o SubSeq(xs, i + 1, Len(xs)))

\* 'mean': the arithmetic mean of the non-missing values, NaN when there is none
Mean(xs) == IF xs = <<>> THEN NaN ELSE Frac(Sum(xs), Len(xs))

\* 'median': the middle value, the mean of the two middle ones for an even count
Median(xs) ==
    LET n == Len(xs)
        o == Sorted(xs)
    IN  IF n = 0 THEN NaN
        ELSE IF n % 2 = 1 THEN Frac(o[(n + 1) \div 2], 1)
        ELSE Frac(o[n \div 2] + o[(n \div 2) + 1], 2)

\* 'std': the sample standard deviation (ddof=1), NaN below two values
Std(xs) ==
    LET n == Len(xs)
    IN  IF n < 2 THEN NaN
        ELSE Sqrt(n * Sum([i \in DOMAIN xs |-> xs[i] * xs[i]]) - Sum(xs) * Sum(xs),
                  n * (n - 1))

\* 'count': the number of non-missing values
Count(xs) == Num(Len(xs))

\* one cell of the aggregate
Statistic(stat, xs) ==
    CASE stat = "mean" -> Mean(xs)
      [] stat = "median" -> Median(xs)
      [] stat = "std" -> Std(xs)
      [] stat = "count" -> Count(xs)

\* the column labels of the aggregate: the (field, statistic) pairs, the
\* statistics of a field side by side
PairColumns ==
    [j \in 1..(Len(columns_to_convert) * Len(Statistics)) |->
        <<columns_to_convert[((j - 1) \div Len(Statistics)) + 1],
          Statistics[((j - 1) % Len(Statistics)) + 1]>>]

\* df.groupby('Primary Industry Group')[columns_to_convert].agg([...]):
\* index: the group keys; data[r][j]: the statistic PairColumns[j] of row r
Aggregate(df) ==
    LET keys == GroupKeys(df)
    IN  [index   |-> keys,
         columns |-> PairColumns,
         data    |-> [r \in DOMAIN keys |-> [j \in DOMAIN PairColumns |->
                        Statistic(PairColumns[j][2],
                                  Values(Partition(df, keys[r]), PairColumns[j][1]))]]]

\* line 67: groupby raises KeyError when the table lacks the grouping column
GroupBy ==
    /\ pc = "aggregate"
    /\ IF GroupColumn \in Range(df_top.columns)
       THEN grouped' = Aggregate(df_top) /\ pc' = "flatten"
       ELSE grouped' = grouped /\ Abort
    /\ UNCHANGED <<file, df_top, layout, callbacks, page_open,
                   selection, n_clicks, figures, download, probe>>

----------------------------------------------------------------------------
(* Startup: column flattening *)

\* sep.join(parts)
RECURSIVE Join(_, _)
Join(sep, parts) ==
    IF parts = <<>> THEN <<>>
    ELSE IF Len(parts) = 1 THEN parts[1]
    ELSE parts[1] \o sep \o Join(sep, Tail(parts))

\* str.strip(): the text without its leading and trailing spaces
RECURSIVE Strip(_)
Strip(text) ==
    IF text = <<>> THEN text
    ELSE IF text[1] = " " THEN Strip(Tail(text))
    ELSE IF text[Len(text)] = " " THEN Strip(SubSeq(text, 1, Len(text) - 1))
    ELSE text

\* str.replace(old, new) for a one-character old
RECURSIVE Replace(_, _, _)
Replace(text, old, new) ==
    IF text = <<>> THEN <<>>
    ELSE (IF text[1] = old THEN new ELSE <<text[1]>>) \o Replace(Tail(text), old, new)

\* line 70: '_'.join(col).strip() for a (field, statistic) pair
JoinPair(col) == Strip(Join(<<"_">>, <<Chars(col[1]), Chars(col[2])>>))

\* faulty adjustments: the spaces are removed; the spaces are kept
AdjustStripping(col) == Replace(Replace(Replace(col, " ", <<>>), "(", <<>>), ")", <<>>)

AdjustKeepingSpaces(col) == Replace(Replace(col, "(", <<>>), ")", <<>>)

\* line 73: col.replace(' ', '_').replace('(', '').replace(')', '')
Adjust(col) == Replace(Replace(Replace(col, " ", <<"_">>), "(", <<>>), ")", <<>>)

\* lines 70 and 73
Flatten ==
    /\ pc = "flatten"
    /\ grouped' = [grouped EXCEPT !.columns =
                      [j \in DOMAIN grouped.columns |-> Adjust(JoinPair(grouped.columns[j]))]]
    /\ pc' = "layout"
    /\ UNCHANGED <<file, df_top, layout, callbacks, page_open,
                   selection, n_clicks, figures, download, probe>>

----------------------------------------------------------------------------
(* Startup: layout and callbacks *)

\* frame.reset_index(): the index becomes the leading column, named after the
\* grouping column, and the frame gets the default index 0, 1, ...
ResetIndexNamed(frame, name) ==
    [index   |-> [r \in DOMAIN frame.index |-> Num(r - 1)],
     columns |-> <<name>> \o frame.columns,
     data    |-> [r \in DOMAIN frame.index |-> <<frame.index[r]>> \o frame.data[r]]]

reset_index(frame) == ResetIndexNamed(frame, GroupColumn)

\* dcc.Dropdown is clearable unless clearable=False is passed; lines 97-110
\* do not pass it
DropdownClearable == TRUE

\* lines 81-229: the widget tree; of its widgets the dropdown alone has a
\* state that an event reads
Layout ==
    /\ pc = "layout"
    /\ layout' = [dropdown |-> [options   |-> [i \in DOMAIN columns_to_convert |->
                                                 Name(columns_to_convert[i])],
                                value     |-> Name("First Financing Size"),
                                clearable |-> DropdownClearable]]
    /\ pc' = "callbacks"
    /\ UNCHANGED <<file, df_top, grouped, callbacks, page_open,
                   selection, n_clicks, figures, download, probe>>

\* lines 231-277: the two decorators register the callbacks; the script is
\* done and the application is served (lines 20, 279-280)
RegisterCallbacks ==
    /\ pc = "callbacks"
    /\ callbacks' = {"update_graphs", "download_csv"}
    /\ pc' = "serving"
    /\ UNCHANGED <<file, df_top, grouped, layout, page_open,
                   selection, n_clicks, figures, download, probe>>

----------------------------------------------------------------------------
(* The callbacks *)

\* f'{selected_variable}'
Format(v) == IF v = None THEN "None" ELSE v.name

\* lines 238-251: px.box puts the two columns into one trace, row by row
box_plot(df, selected_variable) ==
    [x           |-> Column(df, GroupColumn),
     y           |-> IF selected_variable = None THEN None
                     ELSE Column(df, selected_variable.name),
     title       |-> "Box Plot of " \o Format(selected_variable)
                     \o " by Primary Industry Group",
     hover_data  |-> IF "Company" \in Range(df.columns) THEN <<"Company">> ELSE None,
     xaxis_title |-> GroupColumn,
     yaxis_title |-> selected_variable]

\* df.groupby('Primary Industry Group').size().reset_index(name='Company Count')
group_sizes(df) ==
    LET keys == GroupKeys(df)
    IN  [r \in DOMAIN keys |-> [key |-> keys[r], size |-> Len(Partition(df, keys[r]))]]

\* lines 254-267: px.bar of the group sizes
bar_plot(df) ==
    LET sizes == group_sizes(df)
    IN  [x           |-> [r \in DOMAIN sizes |-> sizes[r].key],
         y           |-> [r \in DOMAIN sizes |-> sizes[r].size],
         text        |-> [r \in DOMAIN sizes |-> sizes[r].size],
         title       |-> "Company Count per Primary Industry Group",
         xaxis_title |-> GroupColumn,
         yaxis_title |-> "Company Count"]

\* the categories of an axis, as plotly orders them when no category order
\* is passed (lines 238-244, 254-260): as they first appear in the trace
AxisCategories(x) == Appearance(x)

\* a faulty update_graphs: it first drops, in place, the rows of df_top that
\* hold no value in the selected column
update_graphs_dropna(selected_variable) ==
    /\ df_top' = [df_top EXCEPT !.rows = SelectSeq(df_top.rows,
                     LAMBDA row : selected_variable = None
                                  \/ row[selected_variable.name] # NaN)]
    /\ figures' = [selected_variable |-> selected_variable,
                   box_fig |-> box_plot(df_top', selected_variable),
                   bar_fig |-> bar_plot(df_top')]
    /\ UNCHANGED grouped

\* lines 236-269
update_graphs(selected_variable) ==
    /\ figures' = [selected_variable |-> selected_variable,
                   box_fig |-> box_plot(df_top, selected_variable),
                   bar_fig |-> bar_plot(df_top)]
    /\ UNCHANGED <<df_top, grouped>>

\* the decimal text of a natural number
RECURSIVE DecimalText(_)
DecimalText(n) ==
    IF n < 10 THEN <<Digits[n + 1]>>
    ELSE DecimalText(n \div 10) \o <<Digits[(n % 10) + 1]>>

\* a field of a CSV line, as written
Field(text) == [kind |-> "field", text |-> text]

\* the field of a cell: NaN is written empty (na_rep=''), an integer in
\* decimal; a float stands for its own repr
CsvField(v) ==
    CASE v.kind = "nan" -> Field("")
      [] v.kind = "num" -> Field(Text(DecimalText(v.num)))
      [] v.kind = "str" -> Field(Text(v.text))
      [] OTHER -> v

\* the field of a column label: the name of the grouping column, or a
\* flattened label
CsvLabel(label) == Field(IF label = GroupColumn THEN label ELSE Text(label))

\* frame.to_csv(): index=True is the default, so every line starts with the
\* field of the frame's index, whose header field is empty
to_csv(frame) ==
    <<<<Field("")>> \o [j \in DOMAIN frame.columns |-> CsvLabel(frame.columns[j])]>>
    \o [r \in DOMAIN frame.index |->
          <<CsvField(frame.index[r])>>
          \o [j \in DOMAIN frame.columns |-> CsvField(frame.data[r][j])]]

\* dcc.send_data_frame(writer, filename)
send_data_frame(content, filename) == [content |-> content, filename |-> filename]

\* a faulty download_csv: reset_index(inplace=True)
download_csv_inplace(clicks) ==
    /\ grouped' = reset_index(grouped)
    /\ download' = send_data_frame(to_csv(grouped'), "descriptive_statistics.csv")
    /\ UNCHANGED df_top

\* lines 276-277
download_csv(clicks) ==
    /\ download' = send_data_frame(to_csv(reset_index(grouped)),
                                   "descriptive_statistics.csv")
    /\ UNCHANGED <<df_top, grouped>>

----------------------------------------------------------------------------
(* The served page *)

\* the options the user picks among
Picked == {Name(columns_to_convert[i]) : i \in 1..MaxPicked}

\* history: the invocation is kept for comparison, or the kept one notes that
\* a later invocation was for the same field ("again"; as two selection
\* events in a row differ in their value, other events were served in between)
Observe(event) ==
    \/ /\ event # "export"
       /\ probe' = [call |-> figures', since |-> "taken"]
    \/ /\ probe = None
       /\ probe' = probe
    \/ /\ probe # None
       /\ probe' = [probe EXCEPT !.since =
                      IF event # "export"
                         /\ figures'.selected_variable = probe.call.selected_variable
                      THEN "again" ELSE @]

\* the browser loads the page: the dropdown shows the layout's value and, with
\* no prevent_initial_call on it, update_graphs is called with that value
PageLoad ==
    /\ pc = "serving"
    /\ ~page_open
    /\ page_open' = TRUE
    /\ selection' = layout.dropdown.value
    /\ "update_graphs" \in callbacks
    /\ update_graphs(selection')
    /\ Observe("selection")
    /\ UNCHANGED <<file, pc, layout, callbacks, n_clicks, download>>

\* the user picks another option of the dropdown
SelectOption(v) ==
    /\ page_open
    /\ v \in Range(layout.dropdown.options)
    /\ v # selection
    /\ selection' = v
    /\ update_graphs(selection')
    /\ Observe("selection")
    /\ UNCHANGED <<file, pc, layout, callbacks, page_open, n_clicks, download>>

\* the user clears the dropdown
ClearSelection ==
    /\ page_open
    /\ layout.dropdown.clearable
    /\ selection # None
    /\ selection' = None
    /\ update_graphs(selection')
    /\ Observe("selection")
    /\ UNCHANGED <<file, pc, layout, callbacks, page_open, n_clicks, download>>

\* the user clicks the download button
ClickDownload ==
    /\ page_open
    /\ n_clicks < MaxClicks
    /\ n_clicks' = n_clicks + 1
    /\ "download_csv" \in callbacks
    /\ download_csv(n_clicks')
    /\ Observe("export")
    /\ UNCHANGED <<file, pc, layout, callbacks, page_open, selection, figures>>

Next ==
    \/ Load
    \/ Coerce
    \/ GroupBy
    \/ Flatten
    \/ Layout
    \/ RegisterCallbacks
    \/ PageLoad
    \/ \E v \in Picked : SelectOption(v)
    \/ ClearSelection
    \/ ClickDownload

Spec == Init /\ [][Next]_vars

----------------------------------------------------------------------------
(* The properties *)

TargetFields == Range(columns_to_convert)

\* the position of the column of a field's statistic in the aggregate
StatColumn(i, k) == Len(Statistics) * (i - 1) + k

\* the script has run past line 73: the labels of grouped are flat texts
Flattened == pc \in {"layout", "callbacks", "serving"}

\* the three ways the stages raise
LoadRaises == file = None
CoercionRaises == file # None /\ ~(TargetFields \subseteq Range(file.columns))
AggregationRaises == file # None /\ GroupColumn \notin Range(file.columns)

\* no layout, no callback registered, none invoked
NothingServed ==
    /\ pc # "serving"
    /\ layout = None
    /\ callbacks = {}
    /\ ~page_open
    /\ figures = None
    /\ download = None

\* the table is loaded, its target fields hold numbers or NaN, the aggregate
\* is computed
StagesCompleted ==
    /\ df_top # None
    /\ TargetFields \subseteq Range(df_top.columns)
    /\ \A i \in DOMAIN df_top.rows : \A c \in TargetFields :
          df_top.rows[i][c].kind \in {"num", "nan"}
    /\ grouped # None

\* C1: startup is all-or-nothing.  When the data file is absent, a target
\* field is absent or the grouping column is absent, the script never gets to
\* install a layout or to register or invoke a callback; once it has raised,
\* nothing is served; the layout, the callbacks and the serving state come
\* only after load, coercion and aggregation have completed.
C1_StartupAllOrNothing ==
    /\ (LoadRaises \/ CoercionRaises \/ AggregationRaises) => NothingServed
    /\ pc = "aborted" => NothingServed /\ (LoadRaises \/ CoercionRaises \/ AggregationRaises)
    /\ (pc = "serving" \/ layout # None \/ callbacks # {}) => StagesCompleted

\* the aggregation raised after load and coercion had completed
C1_Witness ==
    /\ pc = "aborted"
    /\ AggregationRaises
    /\ ~CoercionRaises
    /\ df_top # None
    /\ NothingServed

\* C2: every selection handed to update_graphs is one of the 14 options of
\* the dropdown.
C2_SelectionIsEnumerated ==
    figures # None => figures.selected_variable \in {Name(f) : f \in TargetFields}

\* the rows of the cleaned table with key g that hold a value in field f
NonMissingRows(g, f) ==
    {k \in DOMAIN df_top.rows :
        df_top.rows[k][GroupColumn] = g /\ df_top.rows[k][f] # NaN}

\* C3: for every target field f and every row g of the aggregate, the count
\* cell of f is the number of rows of the cleaned table with key g whose f is
\* not missing.
C3_CountIsNonMissing ==
    grouped # None =>
        \A r \in DOMAIN grouped.index : \A i \in DOMAIN columns_to_convert :
            /\ pc = "flatten" =>
                  grouped.columns[StatColumn(i, 4)] = <<columns_to_convert[i], "count">>
            /\ grouped.data[r][StatColumn(i, 4)]
                  = Num(Cardinality(NonMissingRows(grouped.index[r], columns_to_convert[i])))

\* a partition of two rows of which one holds a value: the count is 1
C3_Witness ==
    /\ grouped # None
    /\ \E r \in DOMAIN grouped.index : \E i \in DOMAIN columns_to_convert :
          /\ Len(Partition(df_top, grouped.index[r])) = 2
          /\ grouped.data[r][StatColumn(i, 4)] = Num(1)

\* field + '_' + statistic
Joined(i, k) == Chars(columns_to_convert[i]) \o <<"_">> \o Chars(Statistics[k])

\* a text with every character of a set removed
Removing(text, chars) == SelectSeq(text, LAMBDA c : c \notin chars)

\* a text with every space turned into an underscore
Underscored(text) == [n \in DOMAIN text |-> IF text[n] = " " THEN "_" ELSE text[n]]

\* field + '_' + statistic with every space replaced by an underscore and
\* every '(' and ')' removed, for every pair
UnderscoredLabels ==
    [i \in DOMAIN columns_to_convert |-> [k \in DOMAIN Statistics |->
        Underscored(Removing(Joined(i, k), {"(", ")"}))]]

\* field + '_' + statistic with every space, '(' and ')' removed, for every pair
StrippedLabels ==
    [i \in DOMAIN columns_to_convert |-> [k \in DOMAIN Statistics |->
        Removing(Joined(i, k), {" ", "(", ")"})]]

\* C4 as amended: the label of a (field, statistic) pair is field + '_' +
\* statistic with every space replaced by an underscore and every '(' and
\* ')' removed.
C4_LabelUnderscoresSpaces ==
    Flattened =>
        \A i \in DOMAIN columns_to_convert : \A k \in DOMAIN Statistics :
            grouped.columns[StatColumn(i, k)] = UnderscoredLabels[i][k]

\* C4 as stated: the label of a (field, statistic) pair is field + '_' +
\* statistic with every space, '(' and ')' removed.
C4_LabelStripsSpaces ==
    Flattened =>
        \A i \in DOMAIN columns_to_convert : \A k \in DOMAIN Statistics :
            grouped.columns[StatColumn(i, k)] = StrippedLabels[i][k]

\* the label of ('First Financing Size', 'mean') holds underscores where the
\* field name holds spaces
C4_Witness ==
    /\ Flattened
    /\ Len(grouped.columns[1]) = Len(Joined(1, 1))
    /\ Joined(1, 1)[6] = " " /\ grouped.columns[1][6] = "_"
    /\ Joined(1, 1)[16] = " " /\ grouped.columns[1][16] = "_"

\* C5: the 14 x 4 pairs give 56 labels, pairwise distinct (as a set they are
\* 56), none of which holds a space, '(' or ')'.
C5_LabelsDistinctAndClean ==
    Flattened =>
        /\ Len(grouped.columns) = 56
        /\ Cardinality(Range(grouped.columns)) = 56
        /\ \A j \in DOMAIN grouped.columns : \A n \in DOMAIN grouped.columns[j] :
              grouped.columns[j][n] \notin {" ", "(", ")"}

\* the labels are flattened, and the last is that of ('#Active Investors', 'count')
C5_Witness ==
    /\ pc = "layout"
    /\ Cardinality(Range(grouped.columns)) = 56
    /\ Text(grouped.columns[56]) = "#Active_Investors_count"

\* the numbers the cells of the model's files write
Numbers == 0..99

\* the decimal text of each of them
NumberTexts == [n \in Numbers |-> DecimalText(n)]

\* the numbers the cell validly writes: the one it holds, or the one its text
\* is the decimal text of; none for any other cell
ValidNumbers(cell) ==
    CASE cell.kind = "num" -> {cell.num}
      [] cell.kind = "str" -> {n \in Numbers : NumberTexts[n] = cell.text}
      [] OTHER -> {}

\* the loop of lines 63-64 has run to its end
CoercionDone ==
    \/ pc \in {"aggregate", "flatten", "layout", "callbacks", "serving"}
    \/ pc = "aborted" /\ ~LoadRaises /\ ~CoercionRaises

\* C6: coercion keeps the rows and the columns of the loaded table; a target
\* cell that is a valid number holds that number, any other target cell holds
\* NaN, every other cell is unchanged; and whatever the cells hold, the stage
\* does not raise.
C6_CoercionOnlyTargetCells ==
    /\ CoercionDone =>
          /\ df_top.columns = file.columns
          /\ Len(df_top.rows) = Len(file.rows)
          /\ \A i \in DOMAIN file.rows : \A c \in Range(file.columns) :
                IF c \in TargetFields
                THEN LET valid == ValidNumbers(file.rows[i][c])
                     IN  IF valid = {} THEN df_top.rows[i][c] = NaN
                         ELSE df_top.rows[i][c] \in {Num(n) : n \in valid}
                ELSE df_top.rows[i][c] = file.rows[i][c]
    /\ (pc = "aborted" /\ ~LoadRaises /\ ~CoercionRaises) => AggregationRaises

\* a row where a text that is no number became NaN, a numeric text became its
\* number, and the passthrough cell is still a text
C6_Witness ==
    /\ pc = "aggregate"
    /\ \E i \in DOMAIN file.rows :
          /\ \E c \in TargetFields : file.rows[i][c] = Str(<<"b", "a", "d">>)
                                     /\ df_top.rows[i][c] = NaN
          /\ \E c \in TargetFields : file.rows[i][c] = Str(<<"1", "0">>)
                                     /\ df_top.rows[i][c] = Num(10)
          /\ df_top.rows[i]["Company"].kind = "str"

\* the lines of the CSV of the aggregate with the group key as leading column
GroupKeyLeadingCsv ==
    <<<<Field(GroupColumn)>>
      \o [j \in DOMAIN grouped.columns |-> Field(Text(grouped.columns[j]))]>>
    \o [r \in DOMAIN grouped.index |->
          <<CsvField(grouped.index[r])>>
          \o [j \in DOMAIN grouped.columns |-> CsvField(grouped.data[r][j])]]

\* C7: every invocation of download_csv returns the same payload: the CSV of
\* the aggregate with the group key as leading column, under the file name
\* 'descriptive_statistics.csv'.
C7_ExportIsGroupKeyLeadingCsv ==
    download # None =>
        /\ download.filename = "descriptive_statistics.csv"
        /\ download.content = GroupKeyLeadingCsv

\* C8: an invocation of update_graphs for a field returns what an earlier
\* invocation for that field returned, whatever was served in between; the
\* distribution binds x to the grouping column and y to the field.
C8_UpdateGraphsHistoryIndependent ==
    /\ figures # None =>
          /\ figures.box_fig.xaxis_title = GroupColumn
          /\ figures.box_fig.yaxis_title = figures.selected_variable
          /\ figures.box_fig.title
                = "Box Plot of " \o Format(figures.selected_variable)
                  \o " by Primary Industry Group"
    /\ (probe # None /\ figures.selected_variable = probe.call.selected_variable)
          => figures = probe.call

\* a field was selected, another event was served, the field was selected again
C8_Witness ==
    /\ probe # None
    /\ probe.since = "again"
    /\ figures.selected_variable = probe.call.selected_variable
    /\ figures.selected_variable # None
    /\ Len(df_top.rows) > 0

\* the keys of the cleaned table
KeysOfTable == Range(Column(df_top, GroupColumn)) \ {NaN}

\* the first row of the cleaned table that holds the key
FirstRow(k) ==
    CHOOSE i \in DOMAIN df_top.rows :
        /\ df_top.rows[i][GroupColumn] = k
        /\ \A j \in 1..(i - 1) : df_top.rows[j][GroupColumn] # k

\* a comes before b in the sequence
Before(seq, a, b) == \E i \in DOMAIN seq : \E j \in DOMAIN seq : i < j /\ seq[i] = a /\ seq[j] = b

\* C9 as amended: the distribution chart shows the keys in the order of their
\* first appearance in the cleaned table, the count chart in ascending order
\* of the keys.
C9_BoxByAppearanceBarAscending ==
    figures # None =>
        LET box == AxisCategories(figures.box_fig.x)
            bar == AxisCategories(figures.bar_fig.x)
        IN  /\ Range(box) = KeysOfTable
            /\ Range(bar) = KeysOfTable
            /\ \A a \in KeysOfTable : \A b \in KeysOfTable \ {a} :
                  /\ Before(box, a, b) <=> FirstRow(a) < FirstRow(b)
                  /\ Before(bar, a, b) <=> TextLess(a.text, b.text)

\* C9 as stated: both charts show the keys in the order of their first
\* appearance in the cleaned table.
C9_BothByAppearance ==
    figures # None =>
        LET box == AxisCategories(figures.box_fig.x)
            bar == AxisCategories(figures.bar_fig.x)
        IN  \A a \in KeysOfTable : \A b \in KeysOfTable \ {a} :
                /\ Before(box, a, b) <=> FirstRow(a) < FirstRow(b)
                /\ Before(bar, a, b) <=> FirstRow(a) < FirstRow(b)

\* key B appears before key A in the table: the distribution chart shows B
\* first, the count chart A first
C9_Witness ==
    /\ figures # None
    /\ AxisCategories(figures.box_fig.x) = <<Str(<<"B">>), Str(<<"A">>)>>
    /\ AxisCategories(figures.bar_fig.x) = <<Str(<<"A">>), Str(<<"B">>)>>

\* C10: while the page is served no step changes df_top or grouped; an export
\* leaves the selection alone, and a selection event leaves the selection at
\* the value the dropdown handed to update_graphs.
C10_HandlersWriteNothing ==
    [][pc = "serving" =>
          /\ df_top' = df_top
          /\ grouped' = grouped
          /\ (n_clicks' # n_clicks \/ download' # download) => selection' = selection
          /\ figures' # figures => figures'.selected_variable = selection']_vars

\* the page is served, selections were handled and an export was handled
C10_Witness ==
    /\ pc = "serving"
    /\ download # None
    /\ probe # None
    /\ probe.since = "again"
    /\ StagesCompleted

====
